---- MODULE Spec2Model ----
(***************************************************************************)
(* Model of the Shopify file-upload relay.  The repository holds three     *)
(* server programs:                                                        *)
(*   "plain"   src/server.js lines 1-234    (keeps the original file name) *)
(*   "rename"  src/server.js lines 235-561  (renames, stub webhook)        *)
(*   "mapped"  src/unnamed/part_000         (renames, token mapping,       *)
(*                                           signed webhook)               *)
(* A behaviour is one run of one of them: variant is fixed by Init.        *)
(* Strings that the code takes apart (file names) are sequences of         *)
(* one-character strings; a null, undefined or empty JS value is "".       *)
(***************************************************************************)
EXTENDS Integers, Sequences, FiniteSets, TLC

VARIABLES variant, env, now, disk, mapping, req

vars == <<variant, env, now, disk, mapping, req>>

\* ---------------------------------------------------------------- bounds
NumReqs == 2
MaxClock == 1
MaxPollAttempts == 3

Reqs == 1..NumReqs

\* ------------------------------------------------------- program constants
DefaultMaxAttempts == 12
DefaultIntervalMs == 1000

Variants == {"plain", "rename", "mapped"}

\* process.env: which of SHOPIFY_STORE_DOMAIN, SHOPIFY_ADMIN_API_TOKEN and
\* SHOPIFY_WEBHOOK_SECRET are set
Envs ==
  { [store |-> TRUE,  token |-> TRUE,  secret |-> TRUE],
    [store |-> FALSE, token |-> TRUE,  secret |-> TRUE],
    [store |-> TRUE,  token |-> FALSE, secret |-> TRUE],
    [store |-> FALSE, token |-> FALSE, secret |-> FALSE] }

\* ------------------------------------------------------------ file names
\* toLowerCase, on the upper-case letters the inputs use
Lower(c) ==
  CASE c = "P" -> "p"
    [] c = "A" -> "a"
    [] OTHER -> c

\* the characters outside [a-z0-9_-] (case-insensitive) that the inputs use
FieldUnsafe == {" ", ".", "#"}
\* the characters of [/\\?%*:|"<>] that the inputs use
NameUnsafe == {"/", "?", ":"}

SanitizeFieldChar(c) == Lower(IF c \in FieldUnsafe THEN "-" ELSE c)
SanitizeNameChar(c) == IF c \in NameUnsafe THEN "_" ELSE c

\* fieldName.replace(/[^a-z0-9_-]/gi, "-").toLowerCase()
SanitizeField(s) == [i \in 1..Len(s) |-> SanitizeFieldChar(s[i])]

\* file.originalname.replace(/[/\\?%*:|"<>]/g, "_")
SanitizeName(s) == [i \in 1..Len(s) |-> SanitizeNameChar(s[i])]

LastDot(s) ==
  LET dots == {i \in 1..Len(s) : s[i] = "."}
  IN IF dots = {} THEN 0 ELSE CHOOSE i \in dots : \A j \in dots : j <= i

\* path.extname: from the last dot on, "" when there is none or it leads
extname(s) ==
  IF LastDot(s) <= 1 THEN <<>> ELSE SubSeq(s, LastDot(s), Len(s))

OrDefault(s, d) == IF s = <<>> THEN d ELSE s

INV_VISA == <<"I", "N", "V", "_", "V", "I", "S", "A", "_">>

\* String.prototype.split on one separator character
RECURSIVE Split(_, _)
Split(s, sep) ==
  LET hits == {i \in 1..Len(s) : s[i] = sep}
  IN IF hits = {} THEN <<s>>
     ELSE LET i == CHOOSE k \in hits : \A j \in hits : k <= j
          IN <<SubSeq(s, 1, i - 1)>> \o Split(SubSeq(s, i + 1, Len(s)), sep)

\* path.basename(name, ext): the name without a trailing ext
basename(name, ext) ==
  IF /\ ext # <<>>
     /\ Len(name) > Len(ext)
     /\ SubSeq(name, Len(name) - Len(ext) + 1, Len(name)) = ext
    THEN SubSeq(name, 1, Len(name) - Len(ext))
    ELSE name

\* parts[k] || d, with the code's zero-based k
PartOr(parts, k, d) ==
  IF k + 1 <= Len(parts) /\ parts[k + 1] # <<>> THEN parts[k + 1] ELSE d

\* order.name?.replace("#", "JT-") || "JT-UNKNOWN"
OrderNumber(name) ==
  LET hits == {i \in 1..Len(name) : name[i] = "#"}
      i == CHOOSE k \in hits : \A j \in hits : k <= j
      replaced == IF hits = {} THEN name
                  ELSE SubSeq(name, 1, i - 1) \o <<"J", "T", "-">>
                         \o SubSeq(name, i + 1, Len(name))
  IN OrDefault(replaced, <<"J", "T", "-", "U", "N", "K", "N", "O", "W", "N">>)

\* what the webhook reads back from a stored name: ext, and parts[2],
\* parts[3], parts[4] of the base name split at "_"
HookParts(oldName) ==
  LET ext == extname(oldName)
      parts == Split(basename(oldName, ext), "_")
  IN [safeField |-> PartOr(parts, 2, <<"f", "i", "e", "l", "d">>),
      index |-> PartOr(parts, 3, <<"0">>),
      q |-> PartOr(parts, 4, <<"0">>),
      ext |-> ext]

\* the webhook's name for the re-upload of oldName
HookNewName(oldName, orderNumber) ==
  LET p == HookParts(oldName)
  IN INV_VISA \o p.safeField \o <<"_">> \o orderNumber \o <<"_">> \o p.index
       \o <<"_">> \o p.q \o p.ext

\* multer.diskStorage filename of the renaming programs
RenamedFilename(form) ==
  LET fieldName == OrDefault(form.fieldName, <<"f", "i", "e", "l", "d">>)
      index == OrDefault(form.index, <<"0">>)
      q == OrDefault(form.q, <<"0">>)
      ext == extname(form.originalname)
      safeField == SanitizeField(fieldName)
  IN INV_VISA \o safeField \o <<"_">> \o index \o <<"_">> \o q \o ext

\* multer.diskStorage filename of the plain program: `${Date.now()}_${safeName}`
StampedFilename(t, form) ==
  <<ToString(t), "_">> \o SanitizeName(form.originalname)

Filename(v, t, form) ==
  IF v = "plain" THEN StampedFilename(t, form) ELSE RenamedFilename(form)

\* the multipart forms a client submits (file name and optional text fields)
Forms ==
  { [originalname |-> <<"p", ".", "j">>, fieldName |-> <<>>,
     index |-> <<>>, q |-> <<>>, cartToken |-> ""],
    [originalname |-> <<"a", ":", "b">>, fieldName |-> <<"P", " ", "_", "A">>,
     index |-> <<"1">>, q |-> <<"2">>, cartToken |-> "t1"] }

\* ------------------------------------------------------ upstream responses
NoErrors == <<>>
UserErrors == {NoErrors, <<"invalid">>}

TransferStatuses == {199, 200, 299, 300}

\* a file or node object: absent, or its id and its three URL fields
NoFile == [present |-> FALSE, id |-> "", url |-> "", image |-> "", preview |-> ""]
FileObjects ==
  [present : {TRUE}, id : {"", "gid"}, url : {"", "urlD"},
   image : {"", "urlI"}, preview : {"", "urlP"}]

\* what an awaited call gave the handler: it threw, or it returned a body
\* (userErrors, stagedTargets[0] present, HTTP status, files[0] or node)
NoOutcome ==
  [step |-> "", threw |-> FALSE, userErrors |-> NoErrors, target |-> FALSE,
   status |-> 0, file |-> NoFile]

Thrown(step) == [NoOutcome EXCEPT !.step = step, !.threw = TRUE]

\* stagedUploadsCreate: userErrors and whether stagedTargets[0] exists
SlotOutcomes ==
  {[NoOutcome EXCEPT !.step = "slot", !.userErrors = e, !.target = t] :
     e \in UserErrors, t \in BOOLEAN} \cup {Thrown("slot")}

\* the storage endpoint: any status is a response (validateStatus: () => true)
TransferOutcomes ==
  {[NoOutcome EXCEPT !.step = "transfer", !.status = s] : s \in TransferStatuses}
    \cup {Thrown("transfer")}

\* fileCreate: userErrors and files[0]
RegOutcomes ==
  {[NoOutcome EXCEPT !.step = "reg", !.userErrors = e, !.file = f] :
     e \in UserErrors, f \in FileObjects \cup {NoFile}} \cup {Thrown("reg")}

\* node(id): the node object of a probe
ProbeOutcomes ==
  {[NoOutcome EXCEPT !.step = "probe", !.file = f] :
     f \in {g \in FileObjects : g.id = ""} \cup {NoFile}} \cup {Thrown("probe")}

\* a slip: the fields are read in the order preview, image, direct
ExtractUrlPreviewFirst(f) ==
  IF f.preview # "" THEN f.preview
  ELSE IF f.image # "" THEN f.image
  ELSE f.url

\* a slip: only the direct URL is read
ExtractUrlDirectOnly(f) == f.url

\* node?.url || node?.image?.url || node?.preview?.image?.url || null
ExtractUrl(f) ==
  IF f.url # "" THEN f.url
  ELSE IF f.image # "" THEN f.image
  ELSE f.preview

\* ------------------------------------------------------------- responses
NoRes ==
  [sent |-> FALSE, status |-> 0, success |-> FALSE, error |-> "", url |-> "",
   details |-> NoErrors, s3Status |-> 0]

Failure(status, error) ==
  [sent |-> TRUE, status |-> status, success |-> FALSE, error |-> error,
   url |-> "", details |-> NoErrors, s3Status |-> 0]

\* res.json({ success: true, url }) answers with Express's default status
Success(url) ==
  [sent |-> TRUE, status |-> 200, success |-> TRUE, error |-> "", url |-> url,
   details |-> NoErrors, s3Status |-> 0]

\* ------------------------------------------------------ webhook deliveries
\* the parsed body of an order event
NoOrder == [name |-> <<>>, cart_token |-> ""]
Orders ==
  { [name |-> <<"#", "7">>, cart_token |-> "t1"],
    [name |-> <<>>, cart_token |-> "UNKNOWN"] }

\* createHmac("sha256", key).update(body).digest("base64"): a digest is
\* determined by key and body, and differs when either differs
Hmac(key, body) == <<key, body>>

WebhookSecret == "whsec"
NoHmac == <<>>

\* the X-Shopify-Hmac-Sha256 header of a delivery: absent, or a digest of
\* some body under the shop's secret or under another key
HmacHeaders ==
  {NoHmac} \cup {Hmac(k, b) : k \in {WebhookSecret, "forged"}, b \in Orders}

\* --------------------------------------------------------------- requests
IdleReq ==
  [kind |-> "none", pc |-> "idle", hasFile |-> FALSE, filename |-> <<>>,
   tempPath |-> <<>>,
   nSlot |-> 0, nTransfer |-> 0, nReg |-> 0, nProbe |-> 0,
   last |-> NoOutcome, sentBytes |-> 0, uploadedFile |-> NoFile, fileUrl |-> "",
   attempt |-> 0, maxAttempts |-> 0, intervalMs |-> 0, delays |-> <<>>,
   unlink |-> "none", res |-> NoRes,
   hmac |-> NoHmac, order |-> NoOrder, files |-> <<>>, idx |-> 0,
   newName |-> <<>>, cartToken |-> ""]

\* how the three programs differ
ChecksUserErrors(v) == v \in {"plain", "rename"}
ChecksTransferStatus(v) == v \in {"plain", "rename"}
ChecksFileObject(v) == v \in {"plain", "rename"}
CatchesPollError(v) == v \in {"plain", "rename"}
CleansUp(v) == v \in {"plain", "rename"}
RecordsMapping(v) == v = "mapped"

\* finally { if (tempPath) fs.promises.unlink(tempPath).catch(() => {}) }
Finally(v, q) ==
  IF CleansUp(v) /\ q.tempPath # <<>> THEN [q EXCEPT !.unlink = "pending"] ELSE q

Respond(v, q, res) ==
  Finally(v, [q EXCEPT !.pc = "done", !.res = res])

\* a slip: the rejection is not caught and nothing is answered
CaughtNoResponse(v, q) == [q EXCEPT !.pc = "crashed"]

\* catch (err) { return res.status(500).json(...) }
Caught(v, q) == Respond(v, q, Failure(500, "Gagal upload ke Shopify"))

\* ------------------------------------------------------------- disk, mapping
Exists(d, path) == path \in DOMAIN d

\* a write creates or replaces the file; the content is the writer's request
WriteFile(d, path, bytes) ==
  [p \in DOMAIN d \cup {path} |-> IF p = path THEN bytes ELSE d[p]]

RemoveFile(d, path) == [p \in DOMAIN d \ {path} |-> d[p]]

EmptyDisk == [p \in {} |-> 0]

MappingKeys == {"UNKNOWN", "t1"}

\* const cartToken = req.body.cartToken || "UNKNOWN"
TokenKey(t) == IF t = "" THEN "UNKNOWN" ELSE t

\* a slip: the list written back holds only the new name (a stale read)
MappingAppendLost(m, key, filename) ==
  [m EXCEPT ![key] = <<filename>>]

\* read whole, push, write whole: one synchronous block of the handler
MappingAppend(m, key, filename) ==
  [m EXCEPT ![key] = Append(@, filename)]

\* ------------------------------------------------------------------- Init
Init ==
  /\ variant \in Variants
  /\ env \in Envs
  /\ now = 0
  /\ disk = EmptyDisk
  /\ mapping = [k \in MappingKeys |-> <<>>]
  /\ req = [r \in Reqs |-> IdleReq]

\* requests are taken in the order of their numbers
MayArrive(r) ==
  /\ req[r].pc = "idle"
  /\ \A s \in Reqs : s < r => req[s].pc # "idle"

\* ------------------------------------------------------------ POST /upload
\* the handler from its start to the first outbound call
UploadStart(v, e, q) ==
  IF ~q.hasFile
    THEN Respond(v, q, Failure(400, "Tidak ada file yang diunggah"))
  ELSE LET q1 == IF CleansUp(v) THEN [q EXCEPT !.tempPath = q.filename] ELSE q
       IN IF ~e.store \/ ~e.token
            THEN Respond(v, q1, Failure(500, "belum di-set"))
          ELSE [q1 EXCEPT !.pc = "awaitSlot", !.nSlot = @ + 1]

\* Date.now() when the request arrives; only the plain program reads it
Clock(v, t) ==
  IF v = "plain" /\ t < MaxClock THEN {t, t + 1} ELSE {t}

\* multer stores the file, then the handler runs up to its first await
UploadArrive(r) ==
  /\ MayArrive(r)
  /\ \E hasFile \in BOOLEAN, form \in Forms, t \in Clock(variant, now) :
       LET name == IF hasFile THEN Filename(variant, t, form) ELSE <<>>
           recorded == hasFile /\ RecordsMapping(variant)
           q == [IdleReq EXCEPT !.kind = "upload", !.hasFile = hasFile,
                                !.filename = name,
                                !.cartToken = IF recorded
                                                THEN TokenKey(form.cartToken)
                                                ELSE ""]
       IN /\ now' = t
          /\ disk' = IF hasFile THEN WriteFile(disk, name, r) ELSE disk
          /\ mapping' = IF recorded
                          THEN MappingAppend(mapping, q.cartToken, name)
                          ELSE mapping
          /\ req' = [req EXCEPT ![r] = UploadStart(variant, env, q)]
  /\ UNCHANGED <<variant, env>>

\* form.append("file", fs.createReadStream(path)); ax.post(stagedTarget.url)
StartTransfer(d, q) ==
  [q EXCEPT !.pc = "awaitTransfer", !.nTransfer = @ + 1,
            !.sentBytes = IF Exists(d, q.filename) THEN d[q.filename] ELSE 0]

\* a slip: the transfer starts whether or not a staged target came back
AfterSlotIgnoresTarget(v, d, q, out) ==
  LET q1 == [q EXCEPT !.last = out]
  IN IF out.threw THEN Caught(v, q1)
     ELSE IF ChecksUserErrors(v) /\ out.userErrors # NoErrors
       THEN Respond(v, q1, [Failure(502, "stagedUploadsCreate gagal")
                              EXCEPT !.details = out.userErrors])
     ELSE StartTransfer(d, q1)

AfterSlot(v, d, q, out) ==
  LET q1 == [q EXCEPT !.last = out]
  IN IF out.threw THEN Caught(v, q1)
     ELSE IF ChecksUserErrors(v) /\ out.userErrors # NoErrors
       THEN Respond(v, q1, [Failure(502, "stagedUploadsCreate gagal")
                              EXCEPT !.details = out.userErrors])
     ELSE IF ~out.target
       THEN Respond(v, q1, Failure(502, "stagedTarget kosong"))
     ELSE StartTransfer(d, q1)

SlotReturns(r) ==
  /\ req[r].kind = "upload"
  /\ req[r].pc = "awaitSlot"
  /\ \E out \in SlotOutcomes :
       req' = [req EXCEPT ![r] = AfterSlot(variant, disk, req[r], out)]
  /\ UNCHANGED <<variant, env, now, disk, mapping>>

\* s3Res.status < 200 || s3Res.status >= 300
TransferRejected(status) == status < 200 \/ status >= 300

\* a slip: a rejected transfer is submitted a second time
AfterTransferResend(v, q, out) ==
  LET q1 == [q EXCEPT !.last = out]
  IN IF out.threw THEN Caught(v, q1)
     ELSE IF TransferRejected(out.status)
       THEN IF q.nTransfer < 2
              THEN [q1 EXCEPT !.nTransfer = @ + 1]
              ELSE Respond(v, q1, [Failure(502, "Upload ke storage gagal")
                                     EXCEPT !.s3Status = out.status])
     ELSE [q1 EXCEPT !.pc = "awaitReg", !.nReg = @ + 1]

AfterTransfer(v, q, out) ==
  LET q1 == [q EXCEPT !.last = out]
  IN IF out.threw THEN Caught(v, q1)
     ELSE IF ChecksTransferStatus(v) /\ TransferRejected(out.status)
       THEN Respond(v, q1, [Failure(502, "Upload ke storage gagal")
                              EXCEPT !.s3Status = out.status])
     ELSE [q1 EXCEPT !.pc = "awaitReg", !.nReg = @ + 1]

\* a read stream of a file that is gone fails the transfer call
TransferReturns(r) ==
  /\ req[r].kind = "upload"
  /\ req[r].pc = "awaitTransfer"
  /\ \E out \in TransferOutcomes :
       /\ req[r].sentBytes = 0 => out.threw
       /\ req' = [req EXCEPT ![r] = AfterTransfer(variant, req[r], out)]
  /\ UNCHANGED <<variant, env, now, disk, mapping>>

\* ------------------------------------------------------------ pollFileUrl
\* a slip: the delay grows with the attempt number
PollDelayGrowing(intervalMs, attempt) == intervalMs * attempt

\* await wait(intervalMs): the delay after a probe without a URL
PollDelay(intervalMs, attempt) == intervalMs

\* for (let attempt = 1; attempt <= maxAttempts; attempt++)
PollContinues(attempt, maxAttempts) == attempt <= maxAttempts

\* a slip: success is answered whether or not a URL was found
AfterResolveAlwaysSucceeds(v, q, url) ==
  Respond(v, [q EXCEPT !.fileUrl = url], Success(url))

\* the caller's code after URL resolution: if (!fileUrl) 502, else success
AfterResolve(v, q, url) ==
  IF url = ""
    THEN Respond(v, q, Failure(502, "Response tidak berisi URL file"))
    ELSE Respond(v, [q EXCEPT !.fileUrl = url], Success(url))

\* pollFileUrl rejected: caught around the call, or by the handler's catch
PollThrew(v, q) ==
  IF CatchesPollError(v) THEN AfterResolve(v, q, "") ELSE Caught(v, q)

SendProbe(q) == [q EXCEPT !.pc = "awaitProbe", !.nProbe = @ + 1]

StartPoll(q, maxAttempts, intervalMs) ==
  SendProbe([q EXCEPT !.attempt = 1, !.maxAttempts = maxAttempts,
                      !.intervalMs = intervalMs])

\* a slip: the loop does not return on a URL
AfterProbeIgnoresUrl(v, q, out) ==
  LET q1 == [q EXCEPT !.last = out]
  IN IF out.threw THEN PollThrew(v, q1)
     ELSE [q1 EXCEPT !.pc = "waiting",
                     !.delays = Append(@, PollDelay(q.intervalMs, q.attempt))]

\* a slip: a failed probe is taken as a probe without a URL
AfterProbeAbsorbsError(v, q, out) ==
  LET q1 == [q EXCEPT !.last = out]
  IN IF ~out.threw /\ ExtractUrl(out.file) # ""
       THEN AfterResolve(v, q1, ExtractUrl(out.file))
     ELSE [q1 EXCEPT !.pc = "waiting",
                     !.delays = Append(@, PollDelay(q.intervalMs, q.attempt))]

AfterProbe(v, q, out) ==
  LET q1 == [q EXCEPT !.last = out]
  IN IF out.threw THEN PollThrew(v, q1)
     ELSE IF ExtractUrl(out.file) # ""
       THEN AfterResolve(v, q1, ExtractUrl(out.file))
     ELSE [q1 EXCEPT !.pc = "waiting",
                     !.delays = Append(@, PollDelay(q.intervalMs, q.attempt))]

ProbeReturns(r) ==
  /\ req[r].kind = "upload"
  /\ req[r].pc = "awaitProbe"
  /\ \E out \in ProbeOutcomes :
       req' = [req EXCEPT ![r] = AfterProbe(variant, req[r], out)]
  /\ UNCHANGED <<variant, env, now, disk, mapping>>

\* the timer fires: attempt++, then the next probe or the Timeout error
AfterWait(v, q) ==
  LET q1 == [q EXCEPT !.attempt = @ + 1]
  IN IF PollContinues(q1.attempt, q1.maxAttempts) THEN SendProbe(q1)
     ELSE PollThrew(v, [q1 EXCEPT !.last = Thrown("timeout")])

WaitElapses(r) ==
  /\ req[r].kind = "upload"
  /\ req[r].pc = "waiting"
  /\ req' = [req EXCEPT ![r] = AfterWait(variant, req[r])]
  /\ UNCHANGED <<variant, env, now, disk, mapping>>

\* ------------------------------------------------- registration, resolution
AfterReg(v, q, out) ==
  LET q1 == [q EXCEPT !.last = out]
      q2 == [q1 EXCEPT !.uploadedFile = out.file]
      fileUrl == ExtractUrl(out.file)
  IN IF out.threw THEN Caught(v, q1)
     ELSE IF ChecksUserErrors(v) /\ out.userErrors # NoErrors
       THEN Respond(v, q1, [Failure(502, "fileCreate gagal")
                              EXCEPT !.details = out.userErrors])
     ELSE IF ChecksFileObject(v) /\ ~out.file.present
       THEN Respond(v, q1, Failure(502, "Tidak ada file object dari Shopify"))
     ELSE IF fileUrl = "" /\ out.file.id # ""
       THEN StartPoll(q2, DefaultMaxAttempts, DefaultIntervalMs)
     ELSE AfterResolve(v, q2, fileUrl)

RegReturns(r) ==
  /\ req[r].kind = "upload"
  /\ req[r].pc = "awaitReg"
  /\ \E out \in RegOutcomes :
       req' = [req EXCEPT ![r] = AfterReg(variant, req[r], out)]
  /\ UNCHANGED <<variant, env, now, disk, mapping>>

\* fs.promises.unlink settles: the file is gone (an error is swallowed)
UnlinkSettles(r) ==
  /\ req[r].unlink = "pending"
  /\ disk' = RemoveFile(disk, req[r].tempPath)
  /\ req' = [req EXCEPT ![r].unlink = "settled"]
  /\ UNCHANGED <<variant, env, now, mapping>>

\* ------------------------------------------- POST /webhook/orders-create
HasWebhook(v) == v \in {"rename", "mapped"}
VerifiesHmac(v) == v = "mapped"

\* res.sendStatus(status) / res.status(401).send("Unauthorized")
HookRespond(q, status) ==
  [q EXCEPT !.pc = "done", !.res = [NoRes EXCEPT !.sent = TRUE, !.status = status]]

\* hash !== hmac
HmacMismatch(hash, hmac) == hash # hmac

\* for (const oldName of files), from position i: skip the names that are
\* not on disk, request a slot for the first that is, answer 200 at the end
RECURSIVE HookLoop(_, _, _)
HookLoop(d, q, i) ==
  IF i > Len(q.files) THEN HookRespond(q, 200)
  ELSE IF ~Exists(d, q.files[i]) THEN HookLoop(d, q, i + 1)
  ELSE [q EXCEPT !.idx = i, !.filename = q.files[i],
                 !.newName = HookNewName(q.files[i], OrderNumber(q.order.name)),
                 !.pc = "awaitSlot", !.nSlot = @ + 1]

\* mapping[cartToken] || []
MappedFiles(m, token) == IF token \in DOMAIN m THEN m[token] ELSE <<>>

\* the handler from its start to the first outbound call
HookStart(v, e, m, d, q) ==
  IF ~VerifiesHmac(v) THEN HookRespond(q, 200)
  ELSE IF ~e.secret THEN HookRespond(q, 500)
  ELSE IF HmacMismatch(Hmac(WebhookSecret, q.order), q.hmac)
    THEN HookRespond(q, 401)
  ELSE LET files == MappedFiles(m, q.order.cart_token)
       IN IF Len(files) = 0 THEN HookRespond(q, 200)
          ELSE HookLoop(d, [q EXCEPT !.files = files], 1)

WebhookArrive(r) ==
  /\ MayArrive(r)
  /\ HasWebhook(variant)
  /\ \E hmac \in HmacHeaders, order \in Orders :
       LET q == [IdleReq EXCEPT !.kind = "webhook", !.hmac = hmac,
                                !.order = order]
       IN req' = [req EXCEPT ![r] = HookStart(variant, env, mapping, disk, q)]
  /\ UNCHANGED <<variant, env, now, disk, mapping>>

HookAfterSlot(d, q, out) ==
  LET q1 == [q EXCEPT !.last = out]
  IN IF out.threw THEN HookRespond(q1, 500)
     ELSE IF ~out.target THEN HookLoop(d, q1, q1.idx + 1)
     ELSE StartTransfer(d, q1)

\* a call to https://undefined/... or without the access token is rejected
HookSlotReturns(r) ==
  /\ req[r].kind = "webhook"
  /\ req[r].pc = "awaitSlot"
  /\ \E out \in SlotOutcomes :
       /\ (~env.store \/ ~env.token) => out.threw
       /\ req' = [req EXCEPT ![r] = HookAfterSlot(disk, req[r], out)]
  /\ UNCHANGED <<variant, env, now, disk, mapping>>

\* the status of the transfer is logged, not checked
HookAfterTransfer(q, out) ==
  LET q1 == [q EXCEPT !.last = out]
  IN IF out.threw THEN HookRespond(q1, 500)
     ELSE [q1 EXCEPT !.pc = "awaitReg", !.nReg = @ + 1]

HookTransferReturns(r) ==
  /\ req[r].kind = "webhook"
  /\ req[r].pc = "awaitTransfer"
  /\ \E out \in TransferOutcomes :
       /\ req[r].sentBytes = 0 => out.threw
       /\ req' = [req EXCEPT ![r] = HookAfterTransfer(req[r], out)]
  /\ UNCHANGED <<variant, env, now, disk, mapping>>

\* the registration result is logged; the loop goes on with the next name
HookAfterReg(d, q, out) ==
  LET q1 == [q EXCEPT !.last = out]
  IN IF out.threw THEN HookRespond(q1, 500)
     ELSE HookLoop(d, q1, q1.idx + 1)

HookRegReturns(r) ==
  /\ req[r].kind = "webhook"
  /\ req[r].pc = "awaitReg"
  /\ \E out \in RegOutcomes :
       req' = [req EXCEPT ![r] = HookAfterReg(disk, req[r], out)]
  /\ UNCHANGED <<variant, env, now, disk, mapping>>

Next ==
  \E r \in Reqs :
    \/ UploadArrive(r)
    \/ SlotReturns(r)
    \/ TransferReturns(r)
    \/ RegReturns(r)
    \/ ProbeReturns(r)
    \/ WaitElapses(r)
    \/ UnlinkSettles(r)
    \/ WebhookArrive(r)
    \/ HookSlotReturns(r)
    \/ HookTransferReturns(r)
    \/ HookRegReturns(r)

Spec == Init /\ [][Next]_vars

\* every awaited call settles and every timer fires: the promise of an
\* axios call (timeout: 30_000) resolves or rejects, setTimeout calls back
Fairness ==
  \A r \in Reqs :
    /\ WF_vars(SlotReturns(r))
    /\ WF_vars(TransferReturns(r))
    /\ WF_vars(RegReturns(r))
    /\ WF_vars(ProbeReturns(r))
    /\ WF_vars(WaitElapses(r))

\* an upload request arrives at an otherwise idle server
SoloArrive(r) ==
  /\ \A s \in Reqs \ {r} : req[s].pc = "idle"
  /\ UploadArrive(r)

SoloNext ==
  \E r \in Reqs :
    \/ SoloArrive(r)
    \/ SlotReturns(r)
    \/ TransferReturns(r)
    \/ RegReturns(r)
    \/ ProbeReturns(r)
    \/ WaitElapses(r)
    \/ UnlinkSettles(r)

SoloSpec == Init /\ [][SoloNext]_vars /\ Fairness

\* ------------------------------------------------- pollFileUrl on its own
\* the values of maxAttempts and intervalMs a caller may pass
PollAttemptArgs == 1..MaxPollAttempts
PollIntervalArgs == {800, DefaultIntervalMs}

IdOnlyFile == [NoFile EXCEPT !.present = TRUE, !.id = "gid"]

\* an upload whose registration returned an identifier without a URL, at
\* its call of pollFileUrl({ maxAttempts, intervalMs })
PollingReq(v, maxAttempts, intervalMs) ==
  LET name == Filename(v, 0, CHOOSE f \in Forms : f.cartToken = "")
  IN StartPoll([IdleReq EXCEPT !.kind = "upload", !.hasFile = TRUE,
                  !.filename = name,
                  !.cartToken = IF RecordsMapping(v) THEN "UNKNOWN" ELSE "",
                  !.tempPath = IF CleansUp(v) THEN name ELSE <<>>,
                  !.nSlot = 1, !.nTransfer = 1, !.nReg = 1, !.sentBytes = 1,
                  !.last = [NoOutcome EXCEPT !.step = "reg", !.file = IdOnlyFile],
                  !.uploadedFile = IdOnlyFile],
               maxAttempts, intervalMs)

PollInit ==
  /\ variant \in Variants
  /\ env = [store |-> TRUE, token |-> TRUE, secret |-> TRUE]
  /\ now = 0
  /\ \E maxAttempts \in PollAttemptArgs, intervalMs \in PollIntervalArgs :
       req = [r \in Reqs |-> IF r = 1
                               THEN PollingReq(variant, maxAttempts, intervalMs)
                               ELSE IdleReq]
  /\ disk = WriteFile(EmptyDisk, req[1].filename, 1)
  /\ mapping = IF RecordsMapping(variant)
                 THEN MappingAppend([k \in MappingKeys |-> <<>>], "UNKNOWN",
                                    req[1].filename)
                 ELSE [k \in MappingKeys |-> <<>>]

PollNext ==
  \E r \in Reqs :
    \/ ProbeReturns(r)
    \/ WaitElapses(r)
    \/ UnlinkSettles(r)

PollSpec == PollInit /\ [][PollNext]_vars

\* ------------------------------------------- order events after uploads
MaxRecorded == 2

\* the forms of the uploads the server has handled, in their order
RecordedUploads ==
  UNION {[1..n -> Forms] : n \in 0..MaxRecorded}

\* mapping.json after these uploads
RECURSIVE MappingAfter(_)
MappingAfter(forms) ==
  IF forms = <<>> THEN [k \in MappingKeys |-> <<>>]
  ELSE LET form == forms[Len(forms)]
       IN MappingAppend(MappingAfter(SubSeq(forms, 1, Len(forms) - 1)),
                        TokenKey(form.cartToken), RenamedFilename(form))

\* uploads/ after these uploads: the program that records a mapping never
\* deletes a stored file
RECURSIVE DiskAfter(_)
DiskAfter(forms) ==
  IF forms = <<>> THEN EmptyDisk
  ELSE WriteFile(DiskAfter(SubSeq(forms, 1, Len(forms) - 1)),
                 RenamedFilename(forms[Len(forms)]), Len(forms))

\* a server that has answered some uploads and now receives order events
HookInit ==
  /\ variant \in {v \in Variants : HasWebhook(v)}
  /\ env \in Envs
  /\ now = 0
  /\ req = [r \in Reqs |-> IdleReq]
  /\ \E forms \in RecordedUploads :
       IF RecordsMapping(variant)
         THEN mapping = MappingAfter(forms) /\ disk = DiskAfter(forms)
         ELSE mapping = MappingAfter(<<>>) /\ disk = EmptyDisk

\* an event is delivered, and delivered again, when no delivery is open
Delivery(r) ==
  /\ \A s \in Reqs \ {r} : req[s].pc \in {"idle", "done"}
  /\ WebhookArrive(r)

HookNext ==
  \E r \in Reqs :
    \/ Delivery(r)
    \/ HookSlotReturns(r)
    \/ HookTransferReturns(r)
    \/ HookRegReturns(r)

HookSpec == HookInit /\ [][HookNext]_vars

\* ================================================================ claims
Uploads == {r \in Reqs : req[r].kind = "upload"}
Hooks == {r \in Reqs : req[r].kind = "webhook"}
Done(r) == req[r].pc = "done"

\* the URLs a file or node object carries, and whether it carries any
CarriedUrls(f) == {f.url, f.image, f.preview} \ {""}
CarriesUrl(f) == CarriedUrls(f) # {}

\* the latest upstream answer of r is a body (not an error) of this step
Answered(r, step) == req[r].last.step = step /\ ~req[r].last.threw

\* C1 (as stated): every upload request that carries a file has made exactly
\* one slot-creation call, one transfer call and one registration call by
\* the time it has responded.
C1_ExactlyOneOfEach ==
  \A r \in Uploads :
    (req[r].hasFile /\ Done(r)) =>
      (req[r].nSlot = 1 /\ req[r].nTransfer = 1 /\ req[r].nReg = 1)

\* C1 (amended): an upload request never makes more than one slot-creation
\* call, one transfer call or one registration call, and a request that is
\* answered with success has made exactly one of each.
C1_AtMostOneAndOneOnSuccess ==
  \A r \in Uploads :
    /\ req[r].nSlot <= 1 /\ req[r].nTransfer <= 1 /\ req[r].nReg <= 1
    /\ (Done(r) /\ req[r].res.success) =>
         (req[r].nSlot = 1 /\ req[r].nTransfer = 1 /\ req[r].nReg = 1)

C1_Witness ==
  \E r \in Uploads :
    /\ Done(r) /\ req[r].res.success
    /\ req[r].nSlot = 1 /\ req[r].nTransfer = 1 /\ req[r].nReg = 1

\* C2 (as stated): when the registration response carries a non-empty URL
\* (direct, image or preview image), no probe is sent and the request is
\* answered with success and that URL.
C2_UrlMeansNoProbeAndSuccess ==
  \A r \in Uploads :
    (Answered(r, "reg") /\ CarriesUrl(req[r].last.file)) =>
      /\ req[r].nProbe = 0
      /\ Done(r) /\ req[r].res.success
      /\ req[r].res.url \in CarriedUrls(req[r].last.file)

\* C2 (amended): when the registration response reports no validation
\* errors and carries a non-empty URL, no probe is sent and the request is
\* answered with success and that URL.
C2_CleanUrlMeansNoProbeAndSuccess ==
  \A r \in Uploads :
    (/\ Answered(r, "reg")
     /\ req[r].last.userErrors = NoErrors
     /\ CarriesUrl(req[r].last.file)) =>
      /\ req[r].nProbe = 0
      /\ Done(r) /\ req[r].res.success
      /\ req[r].res.url \in CarriedUrls(req[r].last.file)

C2_Witness ==
  \E r \in Uploads :
    /\ Answered(r, "reg")
    /\ req[r].last.userErrors = NoErrors
    /\ req[r].last.file.url = "" /\ req[r].last.file.image # ""
    /\ req[r].last.file.id # ""
    /\ req[r].nProbe = 0 /\ req[r].res.success

\* the registration response of r, while it is the latest answer, has an
\* identifier and no URL
RegIdOnly(r) ==
  /\ Answered(r, "reg")
  /\ req[r].last.file.id # ""
  /\ ~CarriesUrl(req[r].last.file)

\* a probe may not be outstanding or follow once a probe has answered a URL
StopsAtFirstUrl(r) ==
  (Answered(r, "probe") /\ CarriesUrl(req[r].last.file)) => Done(r)

\* C3 (as stated): when the registration response has an identifier and no
\* URL, at least one probe is sent; no probe follows the first probe that
\* answers a non-empty URL; and no run sends more than 12 probes.
C3_IdOnlyIsProbed ==
  \A r \in Uploads :
    /\ RegIdOnly(r) => req[r].nProbe >= 1
    /\ StopsAtFirstUrl(r)
    /\ req[r].nProbe <= 12

\* C3 (amended): when the registration response reports no validation
\* errors and has an identifier and no URL, at least one probe is sent; no
\* probe follows the first probe that answers a non-empty URL; and no run
\* sends more than 12 probes.
C3_CleanIdOnlyIsProbed ==
  \A r \in Uploads :
    /\ (RegIdOnly(r) /\ req[r].last.userErrors = NoErrors) => req[r].nProbe >= 1
    /\ StopsAtFirstUrl(r)
    /\ req[r].nProbe <= 12

C3_Witness ==
  \E r \in Uploads :
    /\ req[r].uploadedFile.id # "" /\ ~CarriesUrl(req[r].uploadedFile)
    /\ req[r].nProbe = 12
    /\ Answered(r, "probe") /\ CarriesUrl(req[r].last.file)
    /\ Done(r) /\ req[r].res.success

\* initialDelay * 1.6^(n-1), the factor written as 16/10
Geometric(initialDelay, n) == (initialDelay * 16 ^ (n - 1)) \div 10 ^ (n - 1)

C5_TempFileGoneAtResponse ==
  \A r \in Uploads :
    (Done(r) /\ req[r].hasFile) => ~Exists(disk, req[r].filename)

\* the signature header of delivery r is missing or is not the digest of
\* its body under the shop's secret
SignatureInvalid(r) ==
  req[r].hmac = NoHmac \/ req[r].hmac # Hmac(WebhookSecret, req[r].order)

\* C6: an order event whose signature is missing or wrong is answered 401
\* and causes no slot-creation, transfer or registration call, whatever the
\* mapping and the configured secret are.
C6_BadSignatureIsUnauthorized ==
  \A r \in Hooks :
    (Done(r) /\ SignatureInvalid(r)) =>
      /\ req[r].res.status = 401
      /\ req[r].nSlot = 0 /\ req[r].nTransfer = 0 /\ req[r].nReg = 0

\* C7: when the slot-creation response reports validation errors, the
\* request ends with a failure response that echoes them, and no transfer
\* and no registration call is made.
C7_SlotErrorsAreEchoed ==
  \A r \in Uploads :
    (Answered(r, "slot") /\ req[r].last.userErrors # NoErrors) =>
      /\ Done(r) /\ ~req[r].res.success
      /\ req[r].res.details = req[r].last.userErrors
      /\ req[r].nTransfer = 0 /\ req[r].nReg = 0

\* the latest answer of r is an upstream rejection (validation errors) or
\* an empty result (no staged target, no asset object)
RejectedOrEmpty(r) ==
  \/ Answered(r, "slot")
       /\ (req[r].last.userErrors # NoErrors \/ ~req[r].last.target)
  \/ Answered(r, "reg")
       /\ (req[r].last.userErrors # NoErrors \/ ~req[r].last.file.present)

\* C8: the status of an upload response follows the failure class: no file
\* 400, store domain or access token absent 500, upstream rejection or
\* empty result 502, an exception thrown by a step 500, and a 2xx status
\* only together with success.
C8_StatusFollowsFailureClass ==
  \A r \in Uploads :
    Done(r) =>
      /\ ~req[r].hasFile => req[r].res.status = 400
      /\ (req[r].hasFile /\ (~env.store \/ ~env.token)) => req[r].res.status = 500
      /\ RejectedOrEmpty(r) => req[r].res.status = 502
      /\ (req[r].last.threw /\ req[r].last.step # "timeout") =>
           req[r].res.status = 500
      /\ req[r].res.status \in 200..299 => req[r].res.success

\* C9: when registration gave an identifier without a URL and all
\* maxAttempts probes answered no URL, the request ends as a failure with
\* status 502.
C9_TimeoutIs502 ==
  \A r \in Uploads :
    (Done(r) /\ req[r].last = Thrown("timeout")) =>
      (~req[r].res.success /\ req[r].res.status = 502)

\* C10: the transfer succeeds exactly when the storage endpoint answers
\* 200..299; for any other status the request ends as a failure that
\* carries the status, and no registration call is made.
C10_TransferStatusDecides ==
  \A r \in Uploads :
    Answered(r, "transfer") =>
      IF req[r].last.status \in 200..299
        THEN req[r].nReg = 1 /\ ~Done(r)
        ELSE /\ Done(r) /\ ~req[r].res.success
             /\ req[r].res.s3Status = req[r].last.status
             /\ req[r].nReg = 0

\* the first non-empty string of a sequence, "" when there is none
FirstNonEmpty(s) ==
  LET hits == {i \in 1..Len(s) : s[i] # ""}
  IN IF hits = {} THEN ""
     ELSE s[CHOOSE i \in hits : \A j \in hits : i <= j]

\* the URL fields of a file or node object in the order direct, image, preview
UrlFields(f) == <<f.url, f.image, f.preview>>

\* C11: every upload response is either a success that carries a non-empty
\* url, which is the first non-empty URL of the registration response or,
\* when that had none, of the probe that ended the polling, or a failure
\* with success = false, no url and a status outside 200..299, also when the
\* asset was already registered.
C11_SuccessWithUrlOrFailure ==
  \A r \in Uploads :
    Done(r) =>
      /\ req[r].res.sent
      /\ IF req[r].res.success
           THEN /\ req[r].res.url # ""
                /\ IF req[r].nProbe = 0
                     THEN req[r].res.url = FirstNonEmpty(UrlFields(req[r].uploadedFile))
                     ELSE /\ FirstNonEmpty(UrlFields(req[r].uploadedFile)) = ""
                          /\ Answered(r, "probe")
                          /\ req[r].res.url = FirstNonEmpty(UrlFields(req[r].last.file))
           ELSE /\ req[r].res.url = ""
                /\ req[r].res.status \notin 200..299

\* one request succeeded with the preview URL of a probe, another failed
\* although its asset was registered
C11_Witness ==
  \E r, s \in Uploads :
    /\ Done(r) /\ req[r].res.success /\ req[r].nProbe >= 1
    /\ req[r].res.url = "urlP"
    /\ Done(s) /\ ~req[s].res.success /\ req[s].res.status = 502
    /\ req[s].nReg = 1 /\ req[s].uploadedFile.present

\* how often x occurs in the sequence s
Count(s, x) == Cardinality({i \in 1..Len(s) : s[i] = x})

\* the upload requests that appended filename n under token k
Appended(k, n) ==
  {r \in Uploads : req[r].hasFile /\ req[r].cartToken = k /\ req[r].filename = n}

\* the filenames that requests stored or that the mapping lists
KnownNames ==
  {req[r].filename : r \in Uploads}
    \cup UNION {{mapping[k][i] : i \in 1..Len(mapping[k])} : k \in MappingKeys}

\* C12: in every interleaving of upload requests, the mapping lists under
\* each token every filename exactly as often as requests that have passed
\* the mapping step appended it under that token: no append is lost or
\* overwritten by another request's read-modify-write.
C12_NoAppendIsLost ==
  \A k \in MappingKeys :
    \A n \in KnownNames :
      Count(mapping[k], n) = Cardinality(Appended(k, n))

\* two requests in flight at once have appended under the same token
C12_Witness ==
  \E r, s \in Uploads :
    /\ r # s
    /\ req[r].cartToken = "t1" /\ req[s].cartToken = "t1"
    /\ ~Done(r) /\ ~Done(s)
    /\ Len(mapping["t1"]) = 2

\* request r has stored a file and has not finished transferring it
NotYetTransferred(r) ==
  req[r].hasFile /\ req[r].pc \in {"awaitSlot", "awaitTransfer"}

\* C13: for any interleaving of two upload requests, the temporary file a
\* request transfers holds the bytes that request received, and while a
\* request has not finished transferring, its temporary file exists and
\* holds its own bytes: no other request's write or cleanup replaces or
\* deletes it.
C13_TempFilesAreIsolated ==
  \A r \in Uploads :
    /\ req[r].nTransfer >= 1 => req[r].sentBytes = r
    /\ NotYetTransferred(r) =>
         (Exists(disk, req[r].filename) /\ disk[req[r].filename] = r)

\* the parts joined with "_" between them
RECURSIVE Join(_)
Join(parts) ==
  IF Len(parts) = 1 THEN parts[1]
  ELSE parts[1] \o <<"_">> \o Join(Tail(parts))

\* what the naming convention takes from a form: prefix, sanitized field
\* name, index, sequence and extension, each with its default
Prefix == <<"I", "N", "V", "_", "V", "I", "S", "A">>
FieldOf(form) == SanitizeField(OrDefault(form.fieldName, <<"f", "i", "e", "l", "d">>))
IndexOf(form) == OrDefault(form.index, <<"0">>)
SequenceOf(form) == OrDefault(form.q, <<"0">>)
ExtensionOf(form) == extname(form.originalname)

ConventionName(form) ==
  Join(<<Prefix, FieldOf(form), IndexOf(form), SequenceOf(form)>>)
    \o ExtensionOf(form)

\* C14: a file stored by a renaming upload is named
\* prefix_field_index_sequence.ext, and the name the order event uses for
\* its re-registration is that name with the order number in the place of
\* the index: prefix_field_orderNumber_sequence.ext.
C14_OrderNumberReplacesIndex ==
  /\ \A r \in Uploads :
       (req[r].hasFile /\ variant # "plain") =>
         \E form \in Forms : req[r].filename = ConventionName(form)
  /\ \A r \in Hooks :
       req[r].newName # <<>> =>
         \A form \in Forms :
           req[r].filename = ConventionName(form) =>
             req[r].newName =
               Join(<<Prefix, FieldOf(form), OrderNumber(req[r].order.name),
                      SequenceOf(form)>>) \o ExtensionOf(form)

\* C15: a validly signed order event with token t that is answered 200 has
\* worked on files recorded under t only, has made one registration call
\* for each of them, and has resolved the URL of what it registered (a
\* registration that answers an identifier without a URL is probed).
C15_RecordedFilesAreReRegistered ==
  \A r \in Hooks :
    (Done(r) /\ ~SignatureInvalid(r) /\ req[r].res.status = 200) =>
      /\ \A i \in 1..Len(req[r].files) :
           /\ i <= Len(MappedFiles(mapping, req[r].order.cart_token))
           /\ req[r].files[i] = MappedFiles(mapping, req[r].order.cart_token)[i]
      /\ req[r].nReg = Len(req[r].files)
      /\ (Answered(r, "reg") /\ req[r].last.file.id # ""
            /\ ~CarriesUrl(req[r].last.file)) => req[r].nProbe >= 1

\* the position of a handler in the pipeline
Rank(pc) ==
  CASE pc = "idle" -> 0
    [] pc = "awaitSlot" -> 1
    [] pc = "awaitTransfer" -> 2
    [] pc = "awaitReg" -> 3
    [] pc \in {"awaitProbe", "waiting"} -> 4
    [] pc = "done" -> 5

\* one step of upload request r, from record q to record p, keeps the order
\* of the pipeline
StepInOrder(q, p) ==
  /\ Rank(p.pc) >= Rank(q.pc)
  /\ p.nSlot >= q.nSlot /\ p.nTransfer >= q.nTransfer
  /\ p.nReg >= q.nReg /\ p.nProbe >= q.nProbe
  /\ p.nSlot <= 1 /\ p.nTransfer <= 1 /\ p.nReg <= 1
  /\ p.nTransfer > q.nTransfer =>
       (q.nSlot = 1 /\ p.last.step = "slot" /\ ~p.last.threw /\ p.last.target)
  /\ p.nReg > q.nReg =>
       (q.nTransfer = 1 /\ p.last.step = "transfer" /\ ~p.last.threw)
  /\ p.nProbe > q.nProbe =>
       /\ q.nReg = 1 /\ p.uploadedFile.id # "" /\ ~p.last.threw
       /\ q.nProbe = 0 => (p.last.step = "reg" /\ p.last.file = p.uploadedFile)
       /\ q.nProbe > 0 => p.last.step = "probe"

\* C16: within one upload request the outbound calls are made in the order
\* slot creation, transfer, registration, probes: the transfer call only on
\* a slot-creation response with a staged target, the registration call
\* only on the transfer response, a probe only after a registration
\* response with an identifier; the request never moves backward and none
\* of the first three calls is made a second time.
C16_CallsInPipelineOrder ==
  [][\A r \in Reqs :
       req'[r].kind = "upload" => StepInOrder(req[r], req'[r])]_vars

C16_Witness ==
  \E r \in Uploads :
    /\ Done(r) /\ req[r].res.success
    /\ req[r].nSlot = 1 /\ req[r].nTransfer = 1 /\ req[r].nReg = 1
    /\ req[r].nProbe = 2 /\ Len(req[r].delays) = 1

\* the latest answer of r is a failed step: an exception of an outbound
\* call, validation errors or an empty result of slot creation or
\* registration, or a transfer status outside 200..299
StepFailed(r) ==
  \/ req[r].last.threw /\ req[r].last.step \in {"slot", "transfer", "reg", "probe"}
  \/ RejectedOrEmpty(r)
  \/ Answered(r, "transfer") /\ req[r].last.status \notin 200..299

\* C17: once a step of an upload request has failed, the request is ended
\* with a failure response: no transfer, registration or probe call is made
\* after the failed step.
C17_FailedIsTerminal ==
  \A r \in Uploads :
    StepFailed(r) => (Done(r) /\ ~req[r].res.success)

\* C18: when a probe fails with an error, the polling run ends at once: the
\* request is ended without success, no delay is waited for the failed
\* probe (the delays waited are those of the probes before it) and no
\* further probe is sent, also when fewer than maxAttempts were made.
C18_ProbeErrorPropagates ==
  \A r \in Uploads :
    req[r].last = Thrown("probe") =>
      /\ Done(r) /\ ~req[r].res.success
      /\ Len(req[r].delays) = req[r].nProbe - 1
      /\ req[r].nProbe = req[r].attempt

C18_Witness ==
  \E r \in Uploads :
    /\ req[r].last = Thrown("probe")
    /\ req[r].nProbe = 2 /\ req[r].maxAttempts = DefaultMaxAttempts
    /\ Len(req[r].delays) = 1 /\ Done(r)

\* C19: the response of an upload request whose polling timed out (all
\* maxAttempts probes answered without a URL) differs, in status or in
\* error content, from the response of a request whose probe call failed
\* with an error.
C19_TimeoutDiffersFromProbeError ==
  \A r, s \in Uploads :
    (/\ Done(r) /\ req[r].last = Thrown("timeout")
     /\ Done(s) /\ req[s].last = Thrown("probe")) =>
      \/ req[r].res.status # req[s].res.status
      \/ req[r].res.error # req[s].res.error

\* the handler of r has applied URL extraction to its latest answer: the
\* node of a probe, or the files[0] of the registration response it kept
Extracted(r) ==
  \/ Answered(r, "probe")
  \/ Answered(r, "reg") /\ req[r].uploadedFile = req[r].last.file

\* C20: URL extraction from the registration response and from every probe
\* response yields the direct URL if non-empty, else the image URL if
\* non-empty, else the preview-image URL if non-empty, else nothing: for
\* every combination of fields the URL the handler holds after the
\* extraction, and answers when there is one, is the first non-empty of
\* direct, image, preview.
C20_ExtractionIsFirstNonEmpty ==
  \A r \in Uploads :
    Extracted(r) =>
      /\ req[r].fileUrl = FirstNonEmpty(UrlFields(req[r].last.file))
      /\ req[r].fileUrl # "" =>
           (Done(r) /\ req[r].res.success /\ req[r].res.url = req[r].fileUrl)

\* a probe answered an image URL and a preview URL without a direct URL
\* and the image URL was taken; a registration answered all three and the
\* direct URL was taken
C20_Witness ==
  \E r, s \in Uploads :
    /\ Answered(r, "probe")
    /\ UrlFields(req[r].last.file) = <<"", "urlI", "urlP">>
    /\ req[r].res.url = "urlI"
    /\ Answered(s, "reg")
    /\ UrlFields(req[s].last.file) = <<"urlD", "urlI", "urlP">>
    /\ req[s].res.url = "urlD"

\* C21: the poller delays only before a retry: a polling run that has ended
\* after k probes has waited exactly k-1 delays, when it ended with a URL,
\* with a probe error, and when it gave up after maxAttempts probes.
C21_DelaysOnlyBetweenProbes ==
  \A r \in Uploads :
    (Done(r) /\ req[r].nProbe >= 1) =>
      Len(req[r].delays) = req[r].nProbe - 1

\* upload request r, once it has responded, stays as it is: the response
\* is not replaced and no outbound call is issued or awaited
SettledAfterResponse(q, p) ==
  /\ p.res = q.res /\ p.pc = "done"
  /\ p.nSlot = q.nSlot /\ p.nTransfer = q.nTransfer
  /\ p.nReg = q.nReg /\ p.nProbe = q.nProbe

\* C22: when every outbound call eventually returns a response or an
\* error, every upload request eventually sends a response; it sends it
\* only at a terminal state, and after it the response is never replaced
\* and no outbound call of the request is in flight or issued.
C22_RespondsOnceAtTheEnd ==
  /\ \A r \in Reqs :
       [](req[r].kind = "upload" => <>(Done(r) /\ req[r].res.sent))
  /\ [](\A r \in Uploads : req[r].res.sent <=> Done(r))
  /\ [][\A r \in Reqs :
          (req[r].kind = "upload" /\ req[r].res.sent) =>
            SettledAfterResponse(req[r], req'[r])]_vars

\* a request has responded at the end of a polling run that gave up
C22_Witness ==
  \E r \in Uploads :
    /\ Done(r) /\ req[r].res.sent
    /\ req[r].last = Thrown("timeout")
    /\ req[r].nProbe = DefaultMaxAttempts

\* C23: an upload request that is rejected before the slot request (no
\* file, or store domain or access token not configured) makes no outbound
\* call and leaves the mapping exactly as it was before the request.
C23_EarlyRejectionLeavesMapping ==
  [][\A r \in Reqs :
       (/\ req[r].pc = "idle"
        /\ req'[r].kind = "upload" /\ req'[r].pc = "done") =>
         /\ req'[r].nSlot = 0 /\ req'[r].nTransfer = 0
         /\ req'[r].nReg = 0 /\ req'[r].nProbe = 0
         /\ mapping' = mapping]_vars

\* C24: the field name, index and sequence that the order event handler
\* parses out of a stored filename are the sanitized field name, the index
\* and the sequence that the upload wrote into it, also for field names
\* that contain "_" or "-".
C24_PartsRoundTrip ==
  \A r \in Hooks :
    req[r].newName # <<>> =>
      \A form \in Forms :
        req[r].filename = RenamedFilename(form) =>
          /\ HookParts(req[r].filename).safeField = FieldOf(form)
          /\ HookParts(req[r].filename).index = IndexOf(form)
          /\ HookParts(req[r].filename).q = SequenceOf(form)

\* the latest answer of delivery r is a slot-creation response without a
\* staged target
NoTarget(r) == Answered(r, "slot") /\ ~req[r].last.target

\* C25: in the order event handler a failure of one file stays with that
\* file: after a slot-creation response without a staged target the handler
\* makes no transfer or registration call for the file and goes on to the
\* next file or, after the last, answers 200; and after a transfer that
\* returned a status outside 200..299 it makes no registration call for
\* the file.
C25_FileFailureIsIsolated ==
  \A r \in Hooks :
    /\ NoTarget(r) =>
         \/ req[r].pc = "awaitSlot" /\ req[r].idx <= Len(req[r].files)
         \/ Done(r) /\ req[r].res.status = 200
    /\ (Answered(r, "transfer") /\ req[r].last.status \notin 200..299) =>
         req[r].pc # "awaitReg"

\* delivery r of a validly signed event was answered 200 after it had
\* registered files
Processed(r) ==
  /\ ~SignatureInvalid(r)
  /\ Done(r) /\ req[r].res.status = 200
  /\ req[r].nReg >= 1

\* C26: after a validly signed order event for token t has been processed,
\* a second delivery of the same event makes no registration call for the
\* files of t.
C26_SecondDeliveryRegistersNothing ==
  \A r, s \in Hooks :
    (r < s /\ Processed(r) /\ req[s].order = req[r].order
       /\ req[s].hmac = req[r].hmac) =>
      req[s].nReg = 0
====
